---- MODULE Spec2Model ----
(***************************************************************************)
(* pymzn/mzn/minizinc.py: the minizinc() workflow (compile, mzn2fzn,       *)
(* solver function, solns2out, result shaping, nested cleanup) and the     *)
(* line scan of solns2out over the text returned by the solns2out tool.    *)
(*                                                                         *)
(* Text is a sequence of one-character strings, so that split('\n'),       *)
(* strip() and '\n'.join() are computed and not assumed.                   *)
(***************************************************************************)
EXTENDS Integers, Sequences, FiniteSets, TLC

VARIABLES
    pc,          \* position of the running call
    caller,      \* "minizinc": solns2out called at line 107; "user": called directly
    keep,        \* minizinc(keep=...)
    raw_output,  \* minizinc(raw_output=...)
    dzn_files,   \* number of positional data-file paths given to minizinc()
    mzn_globals_dir, \* minizinc(mzn_globals_dir=...); "" when not given
    data,        \* minizinc(data=...): its dzn text; "None" when not given
    base,        \* base name of the model file written by compile()
    workload,    \* which family of streams the solns2out tool prints
    other,       \* the variables of the other call, while this one runs
    fs,          \* the files that exist on disk
    mzn_file,    \* local of minizinc(): path returned by compile()
    fzn_file,    \* local of minizinc(): path or None returned by mzn2fzn
    ozn_file,    \* local of minizinc(): path or None returned by mzn2fzn
    solns_out,   \* local `out` of minizinc(): the list returned by solns2out
    exc,         \* the exception in flight ("none" when there is none)
    result,      \* the value returned to the caller of the outermost call
    calls,       \* history: the stage invocations, in order
    removed,     \* history: the paths os.remove() deleted, in order
    created,     \* history: the paths written to disk
    args,        \* history: the argument list given to the mzn2fzn tool
    attempted,   \* history: the paths os.remove() was called on, in order
    raised,      \* history: <<stage, kind>> of the exception as it was raised
    src_lines,   \* history: the lines the solns2out tool printed
    out,         \* local `out` of solns2out: the text returned by run()
    lines,       \* local of solns2out
    idx,         \* number of elements of `lines` the for loop has taken
    solns,       \* local of solns2out
    curr_out     \* local of solns2out

vars == <<pc, caller, keep, raw_output, dzn_files, mzn_globals_dir, data, base,
          workload, other, fs, mzn_file, fzn_file, ozn_file, solns_out, exc,
          result, calls, removed, created, args, attempted, raised,
          src_lines, out, lines, idx, solns, curr_out>>

\* the arguments of the call, the workload and the other call
in_vars == <<keep, raw_output, dzn_files, mzn_globals_dir, data, base, workload,
             other>>

orch_vars == <<in_vars, fs, mzn_file, fzn_file, ozn_file, solns_out, removed,
               created, args, attempted>>

scan_vars == <<src_lines, out, lines, idx, solns, curr_out>>

----------------------------------------------------------------------------
\* Bounds of the model.

\* lines printed by the solns2out tool when solns2out is called directly
MaxLines == 4
\* lines printed by the solns2out tool inside a minizinc() run
MaxOutLines == 2
\* positional data-file paths given to minizinc()
MaxDzn == 1
\* lines of a stream, and calls of solns2out(), when it is called repeatedly
MaxRescanLines == 2
MaxCalls == 3
\* lines of a stream made of sentinels and of lines that resemble them
MaxExactLines == 3

----------------------------------------------------------------------------
\* Text helpers.

Rep(c, n) == [k \in 1..n |-> c]

Min(S) == CHOOSE x \in S : \A y \in S : x <= y
Max(S) == CHOOSE x \in S : \A y \in S : x >= y

\* str.strip(): drop the leading and the trailing whitespace characters
Strip(s) ==
    LET keepIdx == {k \in 1..Len(s) : s[k] \notin {" ", "\t"}}
    IN  IF keepIdx = {} THEN <<>> ELSE SubSeq(s, Min(keepIdx), Max(keepIdx))

\* str.split('\n'): always at least one element; '' splits to ['']
RECURSIVE Split(_)
Split(s) ==
    LET nl == {k \in 1..Len(s) : s[k] = "\n"}
    IN  IF nl = {} THEN <<s>>
        ELSE <<SubSeq(s, 1, Min(nl) - 1)>> \o Split(SubSeq(s, Min(nl) + 1, Len(s)))

\* '\n'.join(list)
RECURSIVE Join(_)
Join(ls) ==
    IF ls = <<>> THEN <<>>
    ELSE IF Len(ls) = 1 THEN ls[1]
    ELSE ls[1] \o <<"\n">> \o Join(Tail(ls))

----------------------------------------------------------------------------
\* The sentinels of solns2out.

soln_sep == Rep("-", 10)
search_complete_msg == Rep("=", 10)
unsat_msg ==
    Rep("=", 5) \o <<"U","N","S","A","T","I","S","F","I","A","B","L","E">> \o Rep("=", 5)
unkn_msg == Rep("=", 5) \o <<"U","N","K","N","O","W","N">> \o Rep("=", 5)
unbnd_msg == Rep("=", 5) \o <<"U","N","B","O","U","N","D","E","D">> \o Rep("=", 5)

\* The lines the solns2out tool may print (before split and strip).
LineSet ==
    { <<>>,
      <<"a">>,
      <<" ", "b", "\t">>,
      soln_sep,
      <<" ">> \o soln_sep,
      Rep("-", 9),
      search_complete_msg,
      unsat_msg,
      unkn_msg,
      unbnd_msg }

LineSeqsOver(S, n) == UNION {[1..m -> S] : m \in 1..n}

LineSeqs(n) == LineSeqsOver(LineSet, n)

\* The streams printed when two calls of minizinc() run side by side: one
\* solution and the end of the search, or an unsatisfiable problem.
ConcStreams ==
    { << <<"a">>, soln_sep, search_complete_msg >>,
      << unsat_msg >> }

\* A path is <<base, extension>>; None is the empty tuple (falsy, as in Python).
None == <<>>
NoExc == "none"

SplitExtBase_Default(path) == "mznout"

\* os.path.splitext(path)[0]
SplitExtBase(path) == path[1]
\* '.'.join([base, ext])
DotJoin(stem, ext) == <<stem, ext>>
\* os.path.isfile(path)
IsFile(disk, path) == path \in disk

FatalKind_Swapped(line) ==
    IF line = unkn_msg THEN "MiniZincUnknownError"
    ELSE IF line = unsat_msg THEN "MiniZincUnknownError"
    ELSE IF line = unbnd_msg THEN "MiniZincUnboundedError"
    ELSE NoExc

FatalKind_Prefix(line) ==
    LET starts(s) == Len(line) >= Len(s) /\ SubSeq(line, 1, Len(s)) = s
    IN  IF starts(unkn_msg) THEN "MiniZincUnknownError"
        ELSE IF starts(unsat_msg) THEN "MiniZincUnsatisfiableError"
        ELSE IF starts(unbnd_msg) THEN "MiniZincUnboundedError"
        ELSE NoExc

\* lines 229-234: the three fatal sentinels and the exception each one raises
FatalKind(line) ==
    IF line = unkn_msg THEN "MiniZincUnknownError"
    ELSE IF line = unsat_msg THEN "MiniZincUnsatisfiableError"
    ELSE IF line = unbnd_msg THEN "MiniZincUnboundedError"
    ELSE NoExc

\* Where control goes when solns2out raises: the inner finally of minizinc(),
\* or straight to the caller when solns2out was called directly.
RaiseTarget == IF caller = "minizinc" THEN "rm_fzn" ELSE "done"

----------------------------------------------------------------------------
\* solns2out (lines 183-237).

\* Sentinels, bare and padded with whitespace, and lines that resemble a
\* sentinel: longer and shorter runs, a sentinel with text before or after it.
ExactLines ==
    { <<"a">>,
      soln_sep,
      <<" ">> \o soln_sep \o <<"\t">>,
      search_complete_msg,
      <<"\t">> \o search_complete_msg,
      unsat_msg,
      unkn_msg \o <<" ">>,
      unbnd_msg,
      Rep("-", 9),
      Rep("-", 11),
      Rep("=", 9),
      Rep("=", 11),
      soln_sep \o <<"a">>,
      <<"a", " ">> \o search_complete_msg \o <<" ", "a">>,
      unsat_msg \o <<"!">>,
      <<"x">> \o unbnd_msg,
      SubSeq(unkn_msg, 1, Len(unkn_msg) - 1) }

\* A stream of two different solutions, printed inside a minizinc() run.
TwoBlockStreams ==
    { << <<"a">>, soln_sep, <<" ", "b", "\t">>, soln_sep >> }

\* The streams printed when solns2out() is called repeatedly.
RescanStreams == LineSeqsOver({<<"a">>, soln_sep, unsat_msg}, MaxRescanLines)

\* The streams the solns2out tool may print, by workload.
ToolOutput ==
    IF workload = "scan" THEN LineSeqs(MaxLines)
    ELSE IF workload = "conc" THEN ConcStreams
    ELSE IF workload = "rescan" THEN RescanStreams
    ELSE IF workload = "exact" THEN LineSeqsOver(ExactLines, MaxExactLines)
    ELSE LineSeqs(MaxOutLines) \cup TwoBlockStreams

\* lines 204-211: run the solns2out tool on the solver's output
Solns2OutRun ==
    /\ pc = "solns2out"
    /\ calls' = calls \o <<"solns2out", "solns2out_cmd">>
    /\ \/ /\ exc' = "RuntimeError"
          /\ raised' = <<"solns2out", "RuntimeError">>
          /\ pc' = RaiseTarget
          /\ UNCHANGED <<src_lines, out>>
       \/ \E ls \in ToolOutput :
             /\ src_lines' = ls
             /\ out' = Join(ls)
             /\ pc' = "split"
             /\ UNCHANGED <<exc, raised>>
    /\ UNCHANGED <<caller, orch_vars, result, lines, idx, solns, curr_out>>

ScanSplit_KeepsLists ==
    /\ pc = "split"
    /\ lines' = Split(out)
    /\ idx' = 0
    /\ calls' = Append(calls, "scan")
    /\ pc' = "loop"
    /\ UNCHANGED <<caller, orch_vars, exc, raised, result, src_lines, out,
                   solns, curr_out>>

\* lines 217-219
ScanSplit ==
    /\ pc = "split"
    /\ lines' = Split(out)
    /\ solns' = <<>>
    /\ curr_out' = <<>>
    /\ idx' = 0
    /\ calls' = Append(calls, "scan")
    /\ pc' = "loop"
    /\ UNCHANGED <<caller, orch_vars, exc, raised, result, src_lines, out>>

\* The state of the loop body: the two lists, and how the iteration ends
\* ("next" line, "break", or "raise" of `kind`).
LoopState(s, c) == [solns |-> s, curr_out |-> c, ctl |-> "next", kind |-> NoExc]

OnSeparator_NoReset(st) ==
    [st EXCEPT !.solns = Append(@, Join(st.curr_out))]

\* lines 222-226: a separator closes the current block
OnSeparator(st) ==
    [st EXCEPT !.solns = Append(@, Join(st.curr_out)), !.curr_out = <<>>]

OnComplete_Continue(st) == st

\* lines 227-228: the search-complete line leaves the loop
OnComplete(st) == [st EXCEPT !.ctl = "break"]

OnFatal_Break(st, line) == [st EXCEPT !.ctl = "break"]

\* lines 229-234: a fatal sentinel raises its exception
OnFatal(st, line) == [st EXCEPT !.ctl = "raise", !.kind = FatalKind(line)]

OnContent_Restart(st, line) == [st EXCEPT !.curr_out = <<line>>]

\* lines 235-236: any other line is added to the current block
OnContent(st, line) == [st EXCEPT !.curr_out = Append(@, line)]

\* lines 220-236: one iteration of the for loop
ScanLine ==
    /\ pc = "loop"
    /\ idx < Len(lines)
    /\ idx' = idx + 1
    /\ LET line == Strip(lines[idx + 1])
           st == LoopState(solns, curr_out)
           nx == IF line = soln_sep THEN OnSeparator(st)
                 ELSE IF line = search_complete_msg THEN OnComplete(st)
                 ELSE IF FatalKind(line) # NoExc THEN OnFatal(st, line)
                 ELSE OnContent(st, line)
       IN  /\ solns' = nx.solns
           /\ curr_out' = nx.curr_out
           /\ IF nx.ctl = "raise"
              THEN /\ exc' = nx.kind
                   /\ raised' = <<"scan", nx.kind>>
                   /\ pc' = RaiseTarget
              ELSE IF nx.ctl = "break"
              THEN /\ pc' = "break"
                   /\ UNCHANGED <<exc, raised>>
              ELSE UNCHANGED <<pc, exc, raised>>
    /\ UNCHANGED <<caller, orch_vars, result, calls, src_lines, out, lines>>

ReturnValue_Flush(s, c) == IF c # <<>> THEN Append(s, Join(c)) ELSE s

\* line 237: what solns2out returns
ReturnValue(s, c) == s

\* line 237: the loop ran out of lines or met the search-complete line
ScanReturn ==
    /\ \/ pc = "break"
       \/ pc = "loop" /\ idx = Len(lines)
    /\ IF caller = "minizinc"
       THEN /\ solns_out' = ReturnValue(solns, curr_out)
            /\ pc' = "materialize"
            /\ UNCHANGED result
       ELSE /\ result' = ReturnValue(solns, curr_out)
            /\ pc' = "done"
            /\ UNCHANGED solns_out
    /\ UNCHANGED <<caller, in_vars, fs, mzn_file, fzn_file, ozn_file, removed,
                   created, args, attempted, exc, raised, calls, scan_vars>>

----------------------------------------------------------------------------
\* minizinc (lines 13-127) and mzn2fzn (lines 130-180).

\* pymzn.dzn.parse_dzn: the decoded mapping of one solution block
parse_dzn(block) == <<"dict", block>>

\* lines 91-100: build the model and write the mzn file
Compile ==
    /\ pc = "compile"
    /\ mzn_file' = DotJoin(base, "mzn")
    /\ fs' = fs \cup {DotJoin(base, "mzn")}
    /\ created' = created \cup {DotJoin(base, "mzn")}
    /\ pc' = "mzn2fzn"
    /\ UNCHANGED <<caller, in_vars, fzn_file, ozn_file, solns_out, removed, args,
                   attempted, exc, raised, result, calls, scan_vars>>

\* Python values that carry their type: a tuple (*dzn_files) or a list.
PyTuple(items) == [type |-> "tuple", items |-> items]
PyList(items) == [type |-> "list", items |-> items]
TypeError == [type |-> "TypeError", items |-> <<>>]

\* `a or b`: an empty tuple or list is falsy
PyOr(a, b) == IF Len(a.items) > 0 THEN a ELSE b

\* list + x: a list can only be concatenated with a list
PyListAdd(a, b) ==
    IF b.type = "list" THEN PyList(a.items \o b.items) ELSE TypeError

\* the positional data-file paths: a tuple of n paths
DznPaths(n) == PyTuple([k \in 1..n |-> DotJoin(ToString(k), "dzn")])

\* lines 150-160: the argument list of the mzn2fzn tool; the -D value stands
\* for the quoted, space-joined dzn text of `data`
BuildArgs(globals_dir, dat, model, paths) ==
    LET flagG == IF globals_dir # "" THEN << <<"-G", globals_dir>> >> ELSE <<>>
        flagD == IF dat # "None" THEN << <<"-D", dat>> >> ELSE <<>>
    IN  PyListAdd(PyList(flagG \o flagD),
                  PyListAdd(PyList(<<model>>), PyOr(paths, PyList(<<>>))))

\* lines 103-104 and 150-180: stage 1.  Line 160 adds `dzn_files or []` to a
\* list: a non-empty dzn_files is a tuple, and `list + tuple` raises TypeError
\* before the tool runs.  The tool may write either file whether it exits
\* zero or not.
Mzn2Fzn ==
    /\ pc = "mzn2fzn"
    /\ LET built == BuildArgs(mzn_globals_dir, data, mzn_file, DznPaths(dzn_files))
       IN
       IF built = TypeError
       THEN /\ calls' = Append(calls, "mzn2fzn")
            /\ exc' = "TypeError"
            /\ raised' = <<"mzn2fzn", "TypeError">>
            /\ pc' = "rm_mzn"
            /\ UNCHANGED <<fs, created, fzn_file, ozn_file, args>>
       ELSE /\ calls' = calls \o <<"mzn2fzn", "mzn2fzn_cmd">>
            /\ args' = built.items
            /\ \E written \in SUBSET {"fzn", "ozn"}, ok \in BOOLEAN :
                 LET stem == SplitExtBase(mzn_file)
                     disk == fs \cup {DotJoin(stem, e) : e \in written}
                 IN  /\ fs' = disk
                     /\ created' = created \cup {DotJoin(stem, e) : e \in written}
                     /\ IF ok
                        THEN /\ fzn_file' = IF IsFile(disk, DotJoin(stem, "fzn"))
                                            THEN DotJoin(stem, "fzn") ELSE None
                             /\ ozn_file' = IF IsFile(disk, DotJoin(stem, "ozn"))
                                            THEN DotJoin(stem, "ozn") ELSE None
                             /\ pc' = "solve"
                             /\ UNCHANGED <<exc, raised>>
                        ELSE /\ exc' = "RuntimeError"
                             /\ raised' = <<"mzn2fzn", "RuntimeError">>
                             /\ pc' = "rm_mzn"
                             /\ UNCHANGED <<fzn_file, ozn_file>>
    /\ UNCHANGED <<caller, in_vars, mzn_file, solns_out, removed, attempted,
                   result, scan_vars>>

\* line 106: stage 2, the solver function given by the caller
Solve ==
    /\ pc = "solve"
    /\ calls' = Append(calls, "fzn_fn")
    /\ \/ /\ exc' = "SolverError"
          /\ raised' = <<"fzn_fn", "SolverError">>
          /\ pc' = "rm_fzn"
       \/ /\ UNCHANGED <<exc, raised>>
          /\ pc' = "solns2out"
    /\ UNCHANGED <<caller, orch_vars, result, scan_vars>>

Materialize_Partial ==
    /\ pc = "materialize"
    /\ pc' = "rm_fzn"
    /\ IF raw_output
       THEN /\ result' = solns_out
            /\ UNCHANGED <<exc, raised>>
       ELSE \/ /\ result' = [k \in 1..Len(solns_out) |-> parse_dzn(solns_out[k])]
               /\ UNCHANGED <<exc, raised>>
            \/ /\ Len(solns_out) > 0
               /\ exc' = "DecodeError"
               /\ raised' = <<"parse_dzn", "DecodeError">>
               /\ result' = [k \in 1..(Len(solns_out) - 1) |-> parse_dzn(solns_out[k])]
    /\ UNCHANGED <<caller, orch_vars, calls, scan_vars>>

Materialize_Lazy ==
    /\ pc = "materialize"
    /\ pc' = "rm_fzn"
    /\ UNCHANGED <<caller, orch_vars, exc, raised, result, calls, scan_vars>>

\* lines 109-112: list(out) or list(map(parse_dzn, out)); parse_dzn may raise
Materialize ==
    /\ pc = "materialize"
    /\ pc' = "rm_fzn"
    /\ IF raw_output
       THEN /\ result' = solns_out
            /\ UNCHANGED <<exc, raised>>
       ELSE \/ /\ result' = [k \in 1..Len(solns_out) |-> parse_dzn(solns_out[k])]
               /\ UNCHANGED <<exc, raised>>
            \/ /\ Len(solns_out) > 0
               /\ exc' = "DecodeError"
               /\ raised' = <<"parse_dzn", "DecodeError">>
               /\ result' = result
    /\ UNCHANGED <<caller, orch_vars, calls, scan_vars>>

\* lines 113-114: the inner finally runs its removals unless keep is set,
\* whether or not an exception e is in flight
InnerCleanup(k, e) == ~k

OuterCleanup_IgnoresKeep(k, e) == TRUE

OuterCleanup_OnSuccessOnly(k, e) == ~k /\ e = NoExc

\* lines 122-123: the same for the outer finally
OuterCleanup(k, e) == ~k

\* lines 113-118: inner finally, the fzn file.  A FileNotFoundError leaves
\* the whole with block, so the ozn file is then not removed.
RemoveFzn ==
    /\ pc = "rm_fzn"
    /\ IF ~InnerCleanup(keep, exc)
       THEN /\ pc' = "rm_mzn"
            /\ UNCHANGED <<fs, removed, attempted>>
       ELSE IF fzn_file = None
       THEN /\ pc' = "rm_ozn"
            /\ UNCHANGED <<fs, removed, attempted>>
       ELSE IF fzn_file \in fs
       THEN /\ fs' = fs \ {fzn_file}
            /\ removed' = Append(removed, fzn_file)
            /\ attempted' = Append(attempted, fzn_file)
            /\ pc' = "rm_ozn"
       ELSE /\ attempted' = Append(attempted, fzn_file)
            /\ pc' = "rm_mzn"
            /\ UNCHANGED <<fs, removed>>
    /\ UNCHANGED <<caller, in_vars, mzn_file, fzn_file, ozn_file, solns_out,
                   created, args, exc, raised, result, calls, scan_vars>>

\* lines 119-121: inner finally, the ozn file
RemoveOzn ==
    /\ pc = "rm_ozn"
    /\ pc' = "rm_mzn"
    /\ attempted' = IF ozn_file # None THEN Append(attempted, ozn_file)
                    ELSE attempted
    /\ IF ozn_file # None /\ ozn_file \in fs
       THEN /\ fs' = fs \ {ozn_file}
            /\ removed' = Append(removed, ozn_file)
       ELSE UNCHANGED <<fs, removed>>
    /\ UNCHANGED <<caller, in_vars, mzn_file, fzn_file, ozn_file, solns_out,
                   created, args, exc, raised, result, calls, scan_vars>>

\* lines 122-127: outer finally, the mzn file; then control is back at the caller
RemoveMzn ==
    /\ pc = "rm_mzn"
    /\ pc' = "done"
    /\ attempted' = IF OuterCleanup(keep, exc) /\ mzn_file # None
                    THEN Append(attempted, mzn_file) ELSE attempted
    /\ IF OuterCleanup(keep, exc) /\ mzn_file # None /\ mzn_file \in fs
       THEN /\ fs' = fs \ {mzn_file}
            /\ removed' = Append(removed, mzn_file)
       ELSE UNCHANGED <<fs, removed>>
    /\ UNCHANGED <<caller, in_vars, mzn_file, fzn_file, ozn_file, solns_out,
                   created, args, exc, raised, result, calls, scan_vars>>

----------------------------------------------------------------------------
\* Specifications.

\* the variables of one call, as a record
RunState ==
    [pc |-> pc, caller |-> caller, keep |-> keep, raw_output |-> raw_output,
     dzn_files |-> dzn_files, mzn_globals_dir |-> mzn_globals_dir,
     data |-> data, base |-> base, mzn_file |-> mzn_file,
     fzn_file |-> fzn_file, ozn_file |-> ozn_file, solns_out |-> solns_out,
     exc |-> exc, result |-> result, calls |-> calls, removed |-> removed,
     created |-> created, args |-> args, attempted |-> attempted,
     raised |-> raised, src_lines |-> src_lines, out |-> out, lines |-> lines,
     idx |-> idx, solns |-> solns, curr_out |-> curr_out]

\* a call of minizinc(keep=k) that has not started, writing its model to b.mzn
FreshRun(k, b) ==
    [pc |-> "compile", caller |-> "minizinc", keep |-> k, raw_output |-> TRUE,
     dzn_files |-> 0, mzn_globals_dir |-> "gecode", data |-> "None",
     base |-> b, mzn_file |-> None, fzn_file |-> None, ozn_file |-> None,
     solns_out |-> <<>>, exc |-> NoExc, result |-> <<>>, calls |-> <<>>,
     removed |-> <<>>, created |-> {}, args |-> <<>>, attempted |-> <<>>,
     raised |-> <<>>, src_lines |-> <<>>, out |-> <<>>, lines |-> <<>>,
     idx |-> 0, solns |-> <<>>, curr_out |-> <<>>]

\* there is no other call
NoRun == [FreshRun(FALSE, "mznout") EXCEPT !.pc = "absent"]

InitLocals ==
    /\ fs = {}
    /\ mzn_file = None
    /\ fzn_file = None
    /\ ozn_file = None
    /\ solns_out = <<>>
    /\ exc = NoExc
    /\ result = <<>>
    /\ calls = <<>>
    /\ removed = <<>>
    /\ created = {}
    /\ args = <<>>
    /\ attempted = <<>>
    /\ raised = <<>>
    /\ src_lines = <<>>
    /\ out = <<>>
    /\ lines = <<>>
    /\ idx = 0
    /\ solns = <<>>
    /\ curr_out = <<>>

\* A call of minizinc().
Init ==
    /\ pc = "compile"
    /\ caller = "minizinc"
    /\ keep \in BOOLEAN
    /\ raw_output \in BOOLEAN
    /\ dzn_files \in 0..MaxDzn
    /\ mzn_globals_dir \in {"", "gecode"}
    /\ data \in {"None", "x=1;"}
    /\ base = "mznout"
    /\ workload = "run"
    /\ other = NoRun
    /\ InitLocals

Next ==
    \/ Compile
    \/ Mzn2Fzn
    \/ Solve
    \/ Solns2OutRun
    \/ ScanSplit
    \/ ScanLine
    \/ ScanReturn
    \/ Materialize
    \/ RemoveFzn
    \/ RemoveOzn
    \/ RemoveMzn

Spec == Init /\ [][Next]_vars

\* The scheduler takes the running call off the processor and resumes the
\* other one; the disk is shared, everything else belongs to one call.
Switch ==
    /\ other.pc # "absent"
    /\ other' = RunState
    /\ pc' = other.pc
    /\ caller' = other.caller
    /\ keep' = other.keep
    /\ raw_output' = other.raw_output
    /\ dzn_files' = other.dzn_files
    /\ mzn_globals_dir' = other.mzn_globals_dir
    /\ data' = other.data
    /\ base' = other.base
    /\ mzn_file' = other.mzn_file
    /\ fzn_file' = other.fzn_file
    /\ ozn_file' = other.ozn_file
    /\ solns_out' = other.solns_out
    /\ exc' = other.exc
    /\ result' = other.result
    /\ calls' = other.calls
    /\ removed' = other.removed
    /\ created' = other.created
    /\ args' = other.args
    /\ attempted' = other.attempted
    /\ raised' = other.raised
    /\ src_lines' = other.src_lines
    /\ out' = other.out
    /\ lines' = other.lines
    /\ idx' = other.idx
    /\ solns' = other.solns
    /\ curr_out' = other.curr_out
    /\ UNCHANGED <<fs, workload>>

\* Two calls of minizinc() on separate threads: one writes mznout.mzn, the
\* other the same file (no serialize) or a file of its own (serialize).
InitConc ==
    /\ pc = "compile"
    /\ caller = "minizinc"
    /\ keep \in BOOLEAN
    /\ raw_output = TRUE
    /\ dzn_files = 0
    /\ mzn_globals_dir = "gecode"
    /\ data = "None"
    /\ base = "mznout"
    /\ workload = "conc"
    /\ \E k \in BOOLEAN, b \in {"mznout", "mznout_1"} : other = FreshRun(k, b)
    /\ InitLocals

NextConc ==
    \/ Next
    \/ Switch

SpecConc == InitConc /\ [][NextConc]_vars

\* A direct call of solns2out().
InitScan ==
    /\ pc = "solns2out"
    /\ caller = "user"
    /\ keep = FALSE
    /\ raw_output = TRUE
    /\ dzn_files = 0
    /\ mzn_globals_dir = "gecode"
    /\ data = "None"
    /\ base = "mznout"
    /\ workload = "scan"
    /\ other = NoRun
    /\ InitLocals

NextScan ==
    \/ Solns2OutRun
    \/ ScanSplit
    \/ ScanLine
    \/ ScanReturn

SpecScan == InitScan /\ [][NextScan]_vars

\* A direct call of solns2out() on a stream of sentinels and lines that
\* resemble them.
InitExact ==
    /\ pc = "solns2out"
    /\ caller = "user"
    /\ keep = FALSE
    /\ raw_output = TRUE
    /\ dzn_files = 0
    /\ mzn_globals_dir = "gecode"
    /\ data = "None"
    /\ base = "mznout"
    /\ workload = "exact"
    /\ other = NoRun
    /\ InitLocals

SpecExact == InitExact /\ [][NextScan]_vars

\* how many times solns2out() has been entered
CallCount == Cardinality({k \in DOMAIN calls : calls[k] = "solns2out"})

\* The user calls solns2out() again after a call has returned or raised.
\* The new call has no outcome yet; its locals are bound only when lines
\* 217-219 run.  The finished call is remembered in place of an earlier one,
\* or the earlier one stays remembered.
CallAgain ==
    /\ pc = "done"
    /\ caller = "user"
    /\ CallCount < MaxCalls
    /\ pc' = "solns2out"
    /\ exc' = NoExc
    /\ raised' = <<>>
    /\ result' = <<>>
    /\ \/ other' = RunState
       \/ other.pc # "absent" /\ UNCHANGED other
    /\ UNCHANGED <<caller, keep, raw_output, dzn_files, mzn_globals_dir, data,
                   base, workload, fs, mzn_file, fzn_file, ozn_file, solns_out,
                   calls, removed, created, args, attempted, scan_vars>>

\* Repeated direct calls of solns2out().
InitRescan ==
    /\ pc = "solns2out"
    /\ caller = "user"
    /\ keep = FALSE
    /\ raw_output = TRUE
    /\ dzn_files = 0
    /\ mzn_globals_dir = "gecode"
    /\ data = "None"
    /\ base = "mznout"
    /\ workload = "rescan"
    /\ other = NoRun
    /\ InitLocals

NextRescan ==
    \/ NextScan
    \/ CallAgain

SpecRescan == InitRescan /\ [][NextRescan]_vars

----------------------------------------------------------------------------
\* The stream as the tool printed it, read independently of the scan.
\* In the operators below t is the sequence of the printed lines, trimmed.

Trimmed == [k \in 1..Len(src_lines) |-> Strip(src_lines[k])]

IsFatalLine(l) == l \in {unsat_msg, unkn_msg, unbnd_msg}

\* positions of the terminal sentinels (search-complete or fatal)
Terminals(t) ==
    {k \in 1..Len(t) : t[k] = search_complete_msg \/ IsFatalLine(t[k])}

\* position of the first terminal sentinel, or one past the last line
FirstTerminal(t) ==
    LET T == Terminals(t) IN IF T = {} THEN Len(t) + 1 ELSE Min(T)

\* positions of the separators before position n
SepsBefore(t, n) == {k \in 1..(n - 1) : t[k] = soln_sep}

\* the block closed by the separator at position s
BlockEndingAt(t, s) ==
    LET p == Max({0} \cup SepsBefore(t, s))
    IN  Join([j \in 1..(s - 1 - p) |-> t[p + j]])

\* the blocks closed by the separators before position n, in stream order
ClosedBlocks(t, n) ==
    LET S == SepsBefore(t, n)
    IN  [i \in 1..Cardinality(S) |->
            BlockEndingAt(t, CHOOSE s \in S : Cardinality({u \in S : u < s}) = i - 1)]

\* the first terminal sentinel of the stream is a fatal one
FatalFirst(t) ==
    LET ft == FirstTerminal(t) IN ft <= Len(t) /\ IsFatalLine(t[ft])

\* the tool printed a stream and control is back at the caller of solns2out
ScanOver == pc = "done" /\ src_lines # <<>>

----------------------------------------------------------------------------
\* Claims about the scan of solns2out (checked under SpecScan).

\* C1: for a stream with no fatal sentinel line the scan returns exactly one
\* block per separator before the first search-complete line, in stream
\* order, each block being the trimmed lines since the previous separator
\* joined by newline.
C1_BlockPerSeparator ==
    ScanOver =>
        LET t == Trimmed IN
        (\A k \in 1..Len(t) : ~IsFatalLine(t[k]))
            => /\ exc = NoExc
               /\ result = ClosedBlocks(t, FirstTerminal(t))

\* C1 witness: "a", " b<tab>", separator, search-complete returned as the
\* single block "a\nb".
C1_Witness ==
    /\ ScanOver
    /\ src_lines = << <<"a">>, <<" ", "b", "\t">>, soln_sep, search_complete_msg >>
    /\ result = << <<"a", "\n", "b">> >>

\* C2: when the first terminal sentinel is a fatal one the scan stops at that
\* line and raises the exception of that sentinel; no list is returned.
C2_FatalRaisesItsKind ==
    ScanOver =>
        LET t == Trimmed
            ft == FirstTerminal(t)
        IN  FatalFirst(t)
            => /\ idx = ft
               /\ t[ft] = unsat_msg => exc = "MiniZincUnsatisfiableError"
               /\ t[ft] = unkn_msg => exc = "MiniZincUnknownError"
               /\ t[ft] = unbnd_msg => exc = "MiniZincUnboundedError"
               /\ result = <<>>

\* C2 witness: a closed block, then the unsatisfiable sentinel, then more lines.
C2_Witness ==
    /\ ScanOver
    /\ exc = "MiniZincUnsatisfiableError"
    /\ Len(solns) >= 1
    /\ idx < Len(src_lines)

\* C3 as stated: the blocks closed before a fatal sentinel are preserved for
\* the caller.
C3_ClosedBlocksPreserved ==
    ScanOver =>
        LET t == Trimmed
            ft == FirstTerminal(t)
        IN  (FatalFirst(t) /\ SepsBefore(t, ft) # {})
            => result = ClosedBlocks(t, ft)

\* C3 amended: the blocks closed before a fatal sentinel were collected in
\* the local list, and the raise discards them together with the open block:
\* the caller receives the failure and no solution.
C3_ClosedBlocksDiscarded ==
    ScanOver =>
        LET t == Trimmed
            ft == FirstTerminal(t)
        IN  (FatalFirst(t) /\ SepsBefore(t, ft) # {})
            => /\ solns = ClosedBlocks(t, ft)
               /\ Len(solns) >= 1
               /\ exc \in {"MiniZincUnsatisfiableError", "MiniZincUnknownError",
                           "MiniZincUnboundedError"}
               /\ result = <<>>

\* C3 witness: the block "a" was closed, "b" was open, then the unknown
\* sentinel was met.
C3_Witness ==
    /\ ScanOver
    /\ exc = "MiniZincUnknownError"
    /\ solns = << <<"a">> >>
    /\ curr_out = << <<"b">> >>

\* C9: a search-complete line before any fatal sentinel ends the scan with
\* the blocks closed before it; the open block is dropped and no later line
\* is read.
C9_CompleteEndsScan ==
    ScanOver =>
        LET t == Trimmed
            ft == FirstTerminal(t)
        IN  (ft <= Len(t) /\ t[ft] = search_complete_msg)
            => /\ exc = NoExc
               /\ idx = ft
               /\ result = ClosedBlocks(t, ft)

\* C9 witness: an open block at the search-complete line and a fatal
\* sentinel after it.
C9_Witness ==
    /\ ScanOver
    /\ exc = NoExc
    /\ curr_out # <<>>
    /\ \E k \in 1..Len(src_lines) : k > idx /\ IsFatalLine(Strip(src_lines[k]))

\* C10: a stream with neither a search-complete nor a fatal line is read to
\* its end and returns the blocks closed by separators, without the lines
\* after the last separator; the empty stream returns the empty list.
C10_TruncatedStream ==
    ScanOver =>
        LET t == Trimmed IN
        Terminals(t) = {}
            => /\ exc = NoExc
               /\ idx = Len(t)
               /\ result = ClosedBlocks(t, Len(t) + 1)
               /\ out = <<>> => result = <<>>

\* C10 witness: one closed block and lines left open at the end of the stream.
C10_Witness ==
    /\ ScanOver
    /\ Terminals(Trimmed) = {}
    /\ Len(result) = 1
    /\ Len(curr_out) = 2

----------------------------------------------------------------------------
\* Claims about a run of minizinc() (checked under Spec).

Range(f) == {f[k] : k \in DOMAIN f}

IsPrefix(a, b) == Len(a) <= Len(b) /\ a = SubSeq(b, 1, Len(a))

\* the invocations of a run in which every stage completes
FullCalls ==
    <<"mzn2fzn", "mzn2fzn_cmd", "fzn_fn", "solns2out", "solns2out_cmd", "scan">>

\* the last invocation logged when `stage` raises
LastCallOf(stage) ==
    IF stage = "mzn2fzn" THEN {"mzn2fzn", "mzn2fzn_cmd"}
    ELSE IF stage = "fzn_fn" THEN {"fzn_fn"}
    ELSE IF stage = "solns2out" THEN {"solns2out_cmd"}
    ELSE {"scan"}

\* C4: with keep=False, on every exit path, none of the three artifact paths
\* exists on disk when control returns to the caller.
C4_NoArtifactLeft == (pc = "done" /\ ~keep) => fs = {}

\* C5: with keep=True the run removes no file: every file written is still
\* on disk, at every point of the run and when control returns.
C5_KeepRemovesNothing == keep => (removed = <<>> /\ fs = created)

\* C5 witness: a failed run with keep=True that returned with the model, fzn
\* and ozn files all on disk.
C5_Witness ==
    /\ keep
    /\ pc = "done"
    /\ exc # NoExc
    /\ Cardinality(fs) = 3

\* C6: when stage 1 fails, the solver function and solns2out are never
\* invoked, and when control returns the model file is gone unless keep=True.
C6_Stage1FailureStopsRun ==
    (raised # <<>> /\ raised[1] = "mzn2fzn")
        => /\ Range(calls) \cap {"fzn_fn", "solns2out", "solns2out_cmd", "scan"} = {}
           /\ pc = "done" => (mzn_file \in fs <=> keep)

\* C6 witness: the mzn2fzn tool exited non-zero with keep=False and the
\* model file was removed before control returned.
C6_Witness ==
    /\ pc = "done"
    /\ ~keep
    /\ raised = <<"mzn2fzn", "RuntimeError">>
    /\ removed = <<mzn_file>>

\* C7: a failure of a nested stage reaches the caller with the kind it was
\* raised with, and with keep=False the artifacts created so far are removed
\* before it does.
C7_FailureKindAndCleanup ==
    (pc = "done" /\ raised # <<>>)
        => /\ exc = raised[2]
           /\ ~keep => fs = {}

\* C8: the stages are invoked at most once each, in the order flatten, solve,
\* reconstruct, parse; nothing is invoked after a failure; the caller gets a
\* list only when all of them completed, and no solution with a failure.
C8_StagesInOrder ==
    /\ IsPrefix(calls, FullCalls)
    /\ raised # <<>> => calls # <<>> /\ calls[Len(calls)] \in LastCallOf(raised[1])
    /\ (pc = "done" /\ exc = NoExc) => calls = FullCalls
    /\ (pc = "done" /\ exc # NoExc) => result = <<>>
    /\ (exc = NoExc) <=> (raised = <<>>)

\* C8 witness: parse_dzn failed on a list of two blocks after every stage
\* had completed.
C8_Witness ==
    /\ pc = "done"
    /\ exc = "DecodeError"
    /\ calls = FullCalls
    /\ Len(solns_out) = 2

\* C11: for every number n >= 0 of data-file paths, stage 1 builds the list
\* [-G flag, -D flag, model path, the n paths in order] and runs the mzn2fzn
\* tool exactly once with it; it never fails before the tool is run.
C11_ToolRunOnceWithArgs ==
    ("mzn2fzn" \in Range(calls))
        => /\ Cardinality({k \in DOMAIN calls : calls[k] = "mzn2fzn_cmd"}) = 1
           /\ args = (IF mzn_globals_dir # "" THEN << <<"-G", mzn_globals_dir>> >>
                      ELSE <<>>)
                     \o (IF data # "None" THEN << <<"-D", data>> >> ELSE <<>>)
                     \o <<mzn_file>>
                     \o [k \in 1..dzn_files |-> DotJoin(ToString(k), "dzn")]

----------------------------------------------------------------------------
\* Claims about two calls of minizinc() side by side (checked under SpecConc).

\* the paths a call holds in its locals
Held(m, f, o) == {m, f, o} \ {None}

\* C12: when the two calls write model files with distinct base names, their
\* fzn and ozn paths are distinct too, each call removes only files it
\* created, no removal of either call meets a missing file, a call with
\* keep=True keeps all its files, and a call with keep=False that is over
\* has none of its paths left on disk.
C12_DistinctBasesIsolated ==
    (workload = "conc" /\ base # other.base)
        => /\ Held(mzn_file, fzn_file, ozn_file)
                \cap Held(other.mzn_file, other.fzn_file, other.ozn_file) = {}
           /\ created \cap other.created = {}
           /\ Range(removed) \subseteq created
           /\ Range(other.removed) \subseteq other.created
           /\ attempted = removed
           /\ other.attempted = other.removed
           /\ keep => created \subseteq fs
           /\ other.keep => other.created \subseteq fs
           /\ (pc = "done" /\ ~keep)
                => Held(mzn_file, fzn_file, ozn_file) \cap fs = {}
           /\ (other.pc = "done" /\ ~other.keep)
                => Held(other.mzn_file, other.fzn_file, other.ozn_file) \cap fs = {}

\* C12 witness: both calls are over, with distinct base names and keep=False,
\* and each removed its fzn, ozn and model file.
C12_Witness ==
    /\ workload = "conc"
    /\ base # other.base
    /\ pc = "done" /\ other.pc = "done"
    /\ Len(removed) = 3 /\ Len(other.removed) = 3

\* the loop of the scan has been entered and no later call has begun
InScan == calls # <<>> /\ calls[Len(calls)] = "scan"

\* C18: at every step of the scan the open block curr_out is exactly the
\* trimmed lines read since the last separator (a terminal sentinel just
\* read is not among them), so it holds no sentinel line and is empty right
\* after a separator; and no block closed so far has a line equal to one of
\* the five sentinels.
C18_OneOpenBlock ==
    InScan =>
        LET t == Trimmed
            p == Max({0} \cup {k \in 1..idx : t[k] = soln_sep})
            e == IF idx > 0 /\ (t[idx] = search_complete_msg \/ IsFatalLine(t[idx]))
                 THEN idx - 1 ELSE idx
        IN  /\ curr_out = [j \in 1..(e - p) |-> t[p + j]]
            /\ \A k \in 1..Len(curr_out) :
                 curr_out[k] \notin {soln_sep, search_complete_msg, unsat_msg,
                                     unkn_msg, unbnd_msg}
            /\ (idx > 0 /\ t[idx] = soln_sep) => curr_out = <<>>
            /\ \A b \in 1..Len(solns) :
                 LET ls == Split(solns[b])
                 IN  \A k \in 1..Len(ls) :
                        ls[k] \notin {soln_sep, search_complete_msg, unsat_msg,
                                      unkn_msg, unbnd_msg}

\* C18 witness: after "a", separator, " b<tab>" the closed block is "a" and
\* the open block holds the single line "b", with one more line to read.
C18_Witness ==
    /\ pc = "loop"
    /\ idx = 3
    /\ Len(src_lines) = 4
    /\ SubSeq(src_lines, 1, 3) = << <<"a">>, soln_sep, <<" ", "b", "\t">> >>
    /\ solns = << <<"a">> >>
    /\ curr_out = << <<"b">> >>

\* the five sentinels
Sentinels == {soln_sep, search_complete_msg, unsat_msg, unkn_msg, unbnd_msg}

\* the line l has the sentinel s inside it (at its start, its end or between)
ContainsSentinel(l, s) ==
    \E i \in 0..(Len(l) - Len(s)) : SubSeq(l, i + 1, i + Len(s)) = s

\* the line l is a shorter beginning of the sentinel s
ShorterRun(l, s) == l # <<>> /\ Len(l) < Len(s) /\ l = SubSeq(s, 1, Len(l))

\* the trimmed line l is not a sentinel but resembles one
NearSentinel(l) ==
    /\ l \notin Sentinels
    /\ \E s \in Sentinels : ContainsSentinel(l, s) \/ ShorterRun(l, s)

\* C17: in every iteration of the scan, a line that equals a sentinel once
\* trimmed acts as that sentinel (the separator closes the block, the
\* search-complete line leaves the loop, a fatal sentinel raises its kind),
\* and a line that only contains a sentinel, starts with one, or is a longer
\* or shorter run of its characters is appended, trimmed, to the open block:
\* it closes no block and does not end the scan.
C17_ExactMatch ==
    [][(pc = "loop" /\ idx' = idx + 1) =>
        LET line == Strip(src_lines[idx + 1]) IN
        /\ line = soln_sep
             => /\ solns' = Append(solns, Join(curr_out))
                /\ curr_out' = <<>>
                /\ pc' = "loop" /\ exc' = NoExc
        /\ line = search_complete_msg
             => /\ pc' = "break" /\ exc' = NoExc
                /\ solns' = solns
        /\ IsFatalLine(line)
             => /\ pc' = "done"
                /\ exc' = FatalKind(line)
        /\ NearSentinel(line)
             => /\ curr_out' = Append(curr_out, line)
                /\ solns' = solns
                /\ pc' = "loop" /\ exc' = NoExc
    ]_vars

\* C17 witness: an 11-dash line followed by a padded separator and a line
\* that starts with the unsatisfiable sentinel: the scan returned the single
\* block holding the 11-dash line and raised nothing.
C17_Witness ==
    /\ workload = "exact"
    /\ pc = "done"
    /\ src_lines = << Rep("-", 11), <<" ">> \o soln_sep \o <<"\t">>,
                      unsat_msg \o <<"!">> >>
    /\ result = << Rep("-", 11) >>
    /\ exc = NoExc

\* the call r got as far as scanning the text the tool printed
Scanned(r) == r.raised # <<>> => r.raised[1] = "scan"

\* C13: when solns2out() is called repeatedly, two calls that scan the same
\* text give the same list of blocks or raise the same kind of failure,
\* whatever was scanned before or between them, and a scan starts with no
\* block and no line left over from an earlier scan.
C13_ScanIsPure ==
    /\ (workload = "rescan" /\ pc = "done" /\ other.pc = "done"
          /\ Scanned(RunState) /\ Scanned(other) /\ out = other.out)
         => /\ result = other.result
            /\ exc = other.exc
    /\ (workload = "rescan" /\ pc = "loop" /\ idx = 0)
         => /\ solns = <<>>
            /\ curr_out = <<>>
            /\ lines = Split(out)

\* C13 witness: the third call has scanned the text of an earlier call whose
\* scan ended with a closed block and with lines in the open block.
C13_Witness ==
    /\ workload = "rescan"
    /\ pc = "done" /\ other.pc = "done"
    /\ Scanned(RunState) /\ Scanned(other)
    /\ out = other.out
    /\ other.solns # <<>>
    /\ other.curr_out # <<>>
    /\ CallCount = 3

\* C14: with keep=False, when the fzn file returned by stage 1 is missing at
\* cleanup, the outcome of the run stays as it was, and the removal of the
\* ozn file and of the model file is still carried out.
C14_MissingFznTolerated ==
    (pc = "done" /\ ~keep /\ fzn_file # None
       /\ fzn_file \in Range(attempted) /\ fzn_file \notin Range(removed))
        => /\ exc = (IF raised = <<>> THEN NoExc ELSE raised[2])
           /\ ozn_file # None => ozn_file \in Range(attempted)
           /\ mzn_file \in Range(attempted)

\* C15: in a run with keep=False that got past stage 1, the removal of the
\* model file comes last: control has left stages 2 and 3, and the removal of
\* the fzn file and of the ozn file has been attempted before it.
C15_ModelRemovedLast ==
    (~keep /\ "fzn_fn" \in Range(calls) /\ mzn_file \in Range(attempted))
        => /\ pc = "done"
           /\ attempted[Len(attempted)] = mzn_file
           /\ \A f \in Held(None, fzn_file, ozn_file) :
                \E k \in 1..(Len(attempted) - 1) : attempted[k] = f

\* C16: once stage 1 has succeeded, each of the fzn and ozn paths it
\* returned is the path of the file if the tool wrote that file and absent
\* otherwise; stage 2 is never started with an absent fzn path, nor the
\* output tool with an absent ozn path; and cleanup attempts the removal of
\* no path other than the ones the run holds.
C16_AbsentPathChecked ==
    ("fzn_fn" \in Range(calls))
        => /\ fzn_file = (IF DotJoin(base, "fzn") \in created
                             THEN DotJoin(base, "fzn") ELSE None)
           /\ ozn_file = (IF DotJoin(base, "ozn") \in created
                             THEN DotJoin(base, "ozn") ELSE None)
           /\ fzn_file # None
           /\ ("solns2out" \in Range(calls)) => ozn_file # None
           /\ Range(attempted) \subseteq Held(mzn_file, fzn_file, ozn_file)

\* control is in the cleanup of minizinc() or past it
InCleanup == pc \in {"rm_fzn", "rm_ozn", "rm_mzn", "done"}

\* C19: once every stage has completed and control has reached cleanup, the
\* result holds one element per block of the parser, in the parser's order:
\* the block itself with raw_output, parse_dzn of the block otherwise.
\* Nothing is added to the result or decoded from the time cleanup starts.
\* When decoding a block fails the result holds no element, and a run with
\* keep=False still attempts the removal of every path it holds and leaves
\* none of them on disk.
C19_ResultMaterialized ==
    /\ []((InCleanup /\ exc = NoExc /\ calls = FullCalls)
            => /\ solns_out = solns
               /\ Len(result) = Len(solns)
               /\ \A k \in 1..Len(solns) :
                    result[k] = (IF raw_output THEN solns[k] ELSE parse_dzn(solns[k])))
    /\ []((exc = "DecodeError")
            => /\ ~raw_output
               /\ result = <<>>
               /\ InCleanup
               /\ (pc = "done" /\ ~keep)
                    => /\ Held(mzn_file, fzn_file, ozn_file) \subseteq Range(attempted)
                       /\ Held(mzn_file, fzn_file, ozn_file) \cap fs = {})
    /\ [][InCleanup => (result' = result /\ solns_out' = solns_out /\ exc' = exc)]_vars

\* C19 witness: a run with keep=False and raw_output unset is over, its
\* result is the decoded blocks "a" and "b" in that order, and its three
\* files were removed after the result was built.
C19_Witness ==
    /\ pc = "done"
    /\ ~keep /\ ~raw_output
    /\ exc = NoExc
    /\ result = << parse_dzn(<<"a">>), parse_dzn(<<"b">>) >>
    /\ Len(removed) = 3

====
